---- MODULE Spec2Model ----
(***************************************************************************)
(* Model of server.js: an Express service that renders HTML into PNG/JPEG  *)
(* images through one shared puppeteer browser.                            *)
(*                                                                         *)
(* Every await of the source is a suspension point and is modelled as two  *)
(* steps: the call (made by the action that reaches it) and the settling   *)
(* of its promise (one action for resolve, one for reject).  Code between  *)
(* two awaits runs atomically, as it does on the Node event loop.          *)
(***************************************************************************)
EXTENDS Integers, Sequences, FiniteSets, TLC

\* ------------------------------------------------------------------------
\* Bounds of the model
\* ------------------------------------------------------------------------
\* number of requests the service receives in one run
NumReq == 1
\* number of SIGINT/SIGTERM deliveries in one run
MaxSignals == 1

\* number of requests in flight together in the runs of concurrent requests
NumConc == 2

Reqs == 1..NumReq
ConcReqs == 1..NumConc
Handlers == 1..MaxSignals

\* ------------------------------------------------------------------------
\* JavaScript values.  A value is a record [k, n, s]: k is the typeof-like
\* tag, n the number (or 0/1 for a boolean), s the characters of a string.
\* ------------------------------------------------------------------------
Undefined == [k |-> "undefined", n |-> 0, s |-> <<>>]
Null == [k |-> "null", n |-> 0, s |-> <<>>]
NaN == [k |-> "NaN", n |-> 0, s |-> <<>>]
Num(i) == [k |-> "number", n |-> i, s |-> <<>>]
Str(chars) == [k |-> "string", n |-> 0, s |-> chars]
Bool(b) == [k |-> "boolean", n |-> IF b THEN 1 ELSE 0, s |-> <<>>]

\* JavaScript ToBoolean, as used by `!html` and `if (req.body.width)`
Truthy(v) ==
  CASE v.k = "undefined" -> FALSE
    [] v.k = "null" -> FALSE
    [] v.k = "NaN" -> FALSE
    [] v.k = "number" -> v.n # 0
    [] v.k = "boolean" -> v.n = 1
    [] v.k = "string" -> Len(v.s) > 0

DigitChars == <<"0", "1", "2", "3", "4", "5", "6", "7", "8", "9">>
IsDigit(c) == \E i \in 1..10 : DigitChars[i] = c
DigitVal(c) == (CHOOSE i \in 1..10 : DigitChars[i] = c) - 1
IsSpace(c) == c \in {" ", "\t", "\n"}

RECURSIVE SkipSpace(_)
SkipSpace(cs) ==
  IF cs # <<>> /\ IsSpace(Head(cs)) THEN SkipSpace(Tail(cs)) ELSE cs

\* the longest prefix of decimal digits of cs
RECURSIVE DigitPrefix(_)
DigitPrefix(cs) ==
  IF cs # <<>> /\ IsDigit(Head(cs))
    THEN <<Head(cs)>> \o DigitPrefix(Tail(cs))
    ELSE <<>>

RECURSIVE DigitsToInt(_, _)
DigitsToInt(ds, acc) ==
  IF ds = <<>> THEN acc ELSE DigitsToInt(Tail(ds), 10 * acc + DigitVal(Head(ds)))

\* parseInt on the characters of a string: leading white space is skipped,
\* one sign is accepted, the digit prefix is read, the rest is ignored; no
\* digit at all gives NaN.
ParseIntChars(cs) ==
  LET t == SkipSpace(cs)
      neg == t # <<>> /\ Head(t) = "-"
      u == IF t # <<>> /\ Head(t) \in {"-", "+"} THEN Tail(t) ELSE t
      ds == DigitPrefix(u)
  IN IF ds = <<>> THEN NaN
     ELSE Num(IF neg THEN 0 - DigitsToInt(ds, 0) ELSE DigitsToInt(ds, 0))

\* parseInt(v): v is first converted to a string; an integer number prints
\* as its digits, while undefined, null, NaN and booleans print as words
\* that hold no digit.
parseInt(v) ==
  CASE v.k = "number" -> v
    [] v.k = "string" -> ParseIntChars(v.s)
    [] OTHER -> NaN

\* ------------------------------------------------------------------------
\* Request bodies
\* ------------------------------------------------------------------------
\* a property the caller did not send (reading it gives undefined)
Absent == [k |-> "absent", n |-> 0, s |-> <<>>]
Get(v) == IF v = Absent THEN Undefined ELSE v

FieldNames == {"width", "height", "fullPage", "quality", "type"}

png == Str(<<"p", "n", "g">>)
jpeg == Str(<<"j", "p", "e", "g">>)
gif == Str(<<"g", "i", "f">>)
PNGUpper == Str(<<"P", "N", "G">>)
abc == Str(<<"a", "b", "c">>)
px800 == Str(<<"8", "0", "0", "p", "x">>)
s600 == Str(<<"6", "0", "0">>)
high == Str(<<"h", "i", "g", "h">>)
true == Str(<<"t", "r", "u", "e">>)
markup == Str(<<"<", "p", ">">>)
empty == Str(<<>>)

Opt(w, h, f, q, t) ==
  [width |-> w, height |-> h, fullPage |-> f, quality |-> q, type |-> t]

\* the options objects callers send to POST /convert
ConvertOptions ==
  { Opt(Absent, Absent, Absent, Absent, Absent),
    Opt(Absent, Absent, Absent, Num(80), jpeg),
    Opt(px800, s600, Bool(FALSE), Num(80), png),
    Opt(Num(800), Num(600), Bool(FALSE), Num(80), gif),
    Opt(Absent, Absent, Absent, Absent, PNGUpper),
    Opt(Absent, Absent, Absent, Absent, Undefined),
    Opt(Absent, Absent, Absent, Absent, Null),
    Opt(abc, Null, Absent, high, jpeg),
    Opt(Num(0), Num(0 - 5), Absent, Num(150), jpeg) }

\* the JSON bodies of POST /convert
ConvertBodies ==
  { [html |-> h, options |-> o] : h \in {Absent, empty, markup}, o \in ConvertOptions }

\* the multipart forms of POST /convert-form: file is the uploaded buffer
\* (Absent when no file part was sent), the other fields are form strings
Form(file, h, w, ht, f, q, t) ==
  [file |-> file, html |-> h, width |-> w, height |-> ht, fullPage |-> f,
   quality |-> q, type |-> t]

ConvertForms ==
  { Form(Absent, Absent, Absent, Absent, Absent, Absent, Absent),
    Form(Absent, empty, Absent, Absent, Absent, Absent, Absent),
    Form(empty, Absent, Absent, Absent, Absent, Absent, Absent),
    Form(empty, markup, Absent, Absent, Absent, Absent, Absent),
    Form(markup, Absent, Absent, Absent, Absent, Absent, Absent),
    Form(Absent, markup, s600, s600, true, s600, jpeg),
    Form(Absent, markup, abc, Absent, empty, high, jpeg),
    Form(Absent, markup, Absent, Absent, Absent, Absent, gif) }

\* the bodies of the valid requests sent concurrently
ConcBodies ==
  { [html |-> markup, options |-> Opt(Absent, Absent, Absent, Absent, Absent)],
    [html |-> markup, options |-> Opt(px800, s600, Bool(FALSE), Num(80), jpeg)] }

\* a request that has not arrived yet
NoRequest == [endpoint |-> "none", body |-> Absent]

\* ------------------------------------------------------------------------
\* POST /convert-form: the form is turned into a /convert body
\* ------------------------------------------------------------------------
\* neither a file nor a truthy html field: the form handler answers 400
FormRejected(form) == form.file = Absent /\ ~Truthy(Get(form.html))

\* html = req.file.buffer.toString(), else req.body.html
FormHtml(form) == IF form.file # Absent THEN form.file ELSE form.html

FormOptions(form) ==
  [width |-> IF Truthy(Get(form.width)) THEN parseInt(form.width) ELSE Absent,
   height |-> IF Truthy(Get(form.height)) THEN parseInt(form.height) ELSE Absent,
   fullPage |-> IF Get(form.fullPage) # Undefined
                  THEN Bool(form.fullPage = true) ELSE Absent,
   quality |-> IF Truthy(Get(form.quality)) THEN parseInt(form.quality) ELSE Absent,
   type |-> IF Truthy(Get(form.type)) THEN form.type ELSE Absent]

\* req.body = { html, options }
FormBody(form) == [html |-> FormHtml(form), options |-> FormOptions(form)]

\* the body the /convert handler reads for a request
Body(rq) == IF rq.endpoint = "convert-form" THEN FormBody(rq.body) ELSE rq.body

\* ------------------------------------------------------------------------
\* POST /convert: validation and option handling
\* ------------------------------------------------------------------------
defaultOptions == Opt(Num(1920), Num(1080), Bool(TRUE), Num(100), png)

\* variant: the spread is the wrong way round, { ...options, ...defaultOptions }
MergeDefaultsWin(defaults, options) ==
  [f \in FieldNames |-> IF defaults[f] # Absent THEN defaults[f] ELSE options[f]]

\* { ...defaultOptions, ...options }: an own property of options wins, even
\* when its value is undefined or null
Merge(defaults, options) ==
  [f \in FieldNames |-> IF options[f] # Absent THEN options[f] ELSE defaults[f]]

Config(body) == Merge(defaultOptions, body.options)

\* variant: only an absent html is refused (html === undefined)
HtmlMissingUndefinedOnly(body) == Get(body.html) = Undefined

\* if (!html)
HtmlMissing(body) == ~Truthy(Get(body.html))

\* variant: the type is compared without regard to case
ValidTypeIgnoreCase(config) == config.type \in {png, jpeg, PNGUpper}

\* ['png', 'jpeg'].includes(config.type)
ValidType(config) == config.type \in {png, jpeg}

\* the argument of page.setViewport
ViewportArg(config) ==
  [width |-> parseInt(config.width), height |-> parseInt(config.height)]

\* variant: quality is sent for every type
ScreenshotOptionsAlwaysQuality(config) ==
  [type |-> config.type,
   fullPage |-> config.fullPage,
   quality |-> parseInt(config.quality)]

\* the argument of page.screenshot; quality is Absent when it is not set
ScreenshotOptions(config) ==
  [type |-> config.type,
   fullPage |-> config.fullPage,
   quality |-> IF config.type = jpeg THEN parseInt(config.quality) ELSE Absent]

\* variant: the two content types are the wrong way round
MimeTypeSwapped(config) == IF config.type = png THEN "image/jpeg" ELSE "image/png"

\* config.type === 'png' ? 'image/png' : 'image/jpeg'
MimeType(config) == IF config.type = png THEN "image/png" ELSE "image/jpeg"

\* `converted.${config.type}`, as characters
Filename(config) ==
  <<"c", "o", "n", "v", "e", "r", "t", "e", "d", ".">> \o config.type.s

\* the headers of res.set and the body of res.send
ImageResponse(config, image) ==
  [contentType |-> MimeType(config),
   filename |-> Filename(config),
   contentLength |-> Len(image),
   body |-> image]

\* the status the catch block answers with for an error of the given name
ErrorStatus(name) == IF name = "TimeoutError" THEN 408 ELSE 500

\* ------------------------------------------------------------------------
\* State
\* ------------------------------------------------------------------------
VARIABLES
  browser,    \* the global `let browser`: "undefined" or "browser"
  launch,     \* puppeteer.launch of initBrowser: "pending", "resolved", "rejected"
  engine,     \* the Chrome process: "launching", "none", "running", "closing", "closed"
  closeCalls, \* number of browser.close() calls made so far
  sig,        \* per signal delivery: "idle", "closing", "exited", "rejected"
  proc,       \* the Node process: "running", "exited", "crashed"
  pc,         \* per request: the await the handler is suspended at
  req,        \* per request: endpoint and body as received
  config,     \* per request: `const config`, once it is computed
  screenshot, \* per request: `const screenshot`, the bytes page.screenshot returned
  sent,       \* per request: the headers and body given to res.set / res.send
  page,       \* per request: `const page`: "none", "open", "closing", "closed", "closeFailed"
  calls,      \* per request: the engine calls the handler made, in order
  viewport,   \* per request: the arguments given to page.setViewport
  shots,      \* per request: the arguments given to page.screenshot
  thrown,     \* per request: the exceptions raised in the handler, in order
  resp        \* per request: the statuses of the res.send / res.json calls, in order

vars == <<browser, launch, engine, closeCalls, sig, proc, pc, req, config,
          screenshot, sent, page, calls, viewport, shots, thrown, resp>>

lifecycleVars == <<browser, launch, engine, closeCalls, sig>>
engineVars == <<page, calls, viewport, shots>>

\* the image buffers page.screenshot returns, as sequences of bytes
Images == {<<137, 80>>, <<255, 216, 255>>}

\* names of the errors the rendering engine rejects with
ErrNames == {"Error", "TimeoutError"}

\* the values the state takes
TypeOK ==
  /\ browser \in {"undefined", "browser"}
  /\ launch \in {"pending", "resolved", "rejected"}
  /\ engine \in {"launching", "none", "running", "closing", "closed"}
  /\ closeCalls \in 0..Cardinality(DOMAIN sig)
  /\ \A h \in DOMAIN sig : sig[h] \in {"idle", "closing", "exited", "rejected"}
  /\ proc \in {"running", "exited", "crashed"}
  /\ \A r \in DOMAIN pc :
       /\ pc[r] \in {"idle", "newPage", "setViewport", "setContent", "waitForTimeout",
                     "screenshot", "close", "done", "unhandled"}
       /\ req[r].endpoint \in {"none", "convert", "convert-form"}
       /\ page[r] \in {"none", "open", "closing", "closed", "closeFailed"}
       /\ \A i \in DOMAIN calls[r] :
            calls[r][i] \in {"newPage", "setViewport", "setContent", "waitForTimeout",
                            "screenshot", "close"}
       /\ Len(config[r]) <= 1
       /\ \A i \in DOMAIN screenshot[r] : screenshot[r][i] \in Images
       /\ \A i \in DOMAIN sent[r] : sent[r][i].body \in Images
       /\ Len(viewport[r]) <= 1
       /\ Len(shots[r]) <= 1
       /\ \A i \in DOMAIN thrown[r] :
            thrown[r][i].name \in ErrNames \cup {"TypeError"}
       /\ \A i \in DOMAIN resp[r] : resp[r][i] \in {200, 400, 408, 500}

Running == proc = "running"

Init ==
  /\ browser = "undefined"
  /\ launch = "pending"
  /\ engine = "launching"
  /\ closeCalls = 0
  /\ sig = [h \in Handlers |-> "idle"]
  /\ proc = "running"
  /\ pc = [r \in Reqs |-> "idle"]
  /\ req = [r \in Reqs |-> NoRequest]
  /\ config = [r \in Reqs |-> <<>>]
  /\ screenshot = [r \in Reqs |-> <<>>]
  /\ sent = [r \in Reqs |-> <<>>]
  /\ page = [r \in Reqs |-> "none"]
  /\ calls = [r \in Reqs |-> <<>>]
  /\ viewport = [r \in Reqs |-> <<>>]
  /\ shots = [r \in Reqs |-> <<>>]
  /\ thrown = [r \in Reqs |-> <<>>]
  /\ resp = [r \in Reqs |-> <<>>]

\* ------------------------------------------------------------------------
\* initBrowser
\* ------------------------------------------------------------------------
\* browser = await puppeteer.launch(...)
LaunchResolve ==
  /\ Running
  /\ launch = "pending"
  /\ launch' = "resolved"
  /\ browser' = "browser"
  /\ engine' = "running"
  /\ UNCHANGED <<closeCalls, sig, proc, pc, req, config, screenshot, sent, page, calls, viewport, shots,
                 thrown, resp>>

\* variant: no try/catch around the launch, the rejection ends the process
LaunchRejectCrash ==
  /\ Running
  /\ launch = "pending"
  /\ launch' = "rejected"
  /\ engine' = "none"
  /\ proc' = "crashed"
  /\ UNCHANGED <<browser, closeCalls, sig, pc, req, config, screenshot, sent, page, calls, viewport,
                 shots, thrown, resp>>

\* catch (error) { console.error(...) }
LaunchReject ==
  /\ Running
  /\ launch = "pending"
  /\ launch' = "rejected"
  /\ engine' = "none"
  /\ UNCHANGED <<browser, closeCalls, sig, proc, pc, req, config, screenshot, sent, page, calls, viewport,
                 shots, thrown, resp>>

\* ------------------------------------------------------------------------
\* SIGINT / SIGTERM handlers (the two handlers have the same body)
\* ------------------------------------------------------------------------
\* deliveries take the handler slots in order
NextSignal(h) == sig[h] = "idle" /\ \A g \in DOMAIN sig : g < h => sig[g] # "idle"

\* variant: browser.close() is not awaited before process.exit(0)
SignalNoAwait(h) ==
  /\ Running
  /\ NextSignal(h)
  /\ closeCalls' = IF browser # "undefined" THEN closeCalls + 1 ELSE closeCalls
  /\ engine' = IF browser # "undefined" THEN "closing" ELSE engine
  /\ sig' = [sig EXCEPT ![h] = "exited"]
  /\ proc' = "exited"
  /\ UNCHANGED <<browser, launch, pc, req, config, screenshot, sent, page, calls, viewport, shots, thrown, resp>>

\* if (browser) { await browser.close(); } process.exit(0);
Signal(h) ==
  /\ Running
  /\ NextSignal(h)
  /\ IF browser # "undefined"
       THEN /\ closeCalls' = closeCalls + 1
            /\ engine' = "closing"
            /\ sig' = [sig EXCEPT ![h] = "closing"]
            /\ proc' = proc
       ELSE /\ closeCalls' = closeCalls
            /\ engine' = engine
            /\ sig' = [sig EXCEPT ![h] = "exited"]
            /\ proc' = "exited"
  /\ UNCHANGED <<browser, launch, pc, req, config, screenshot, sent, page, calls, viewport, shots, thrown, resp>>

\* browser.close() resolved: process.exit(0)
BrowserCloseResolve(h) ==
  /\ Running
  /\ sig[h] = "closing"
  /\ sig' = [sig EXCEPT ![h] = "exited"]
  /\ engine' = "closed"
  /\ proc' = "exited"
  /\ UNCHANGED <<browser, launch, closeCalls, pc, req, config, screenshot, sent, page, calls, viewport, shots,
                 thrown, resp>>

\* browser.close() rejected: the async handler rejects, process.exit is not
\* reached; the unhandled rejection ends the process or is only logged,
\* depending on the Node version
BrowserCloseReject(h) ==
  /\ Running
  /\ sig[h] = "closing"
  /\ sig' = [sig EXCEPT ![h] = "rejected"]
  /\ proc' \in {"running", "crashed"}
  /\ UNCHANGED <<browser, launch, engine, closeCalls, pc, req, config, screenshot, sent, page, calls, viewport, shots,
                 thrown, resp>>

\* ------------------------------------------------------------------------
\* POST /convert handler
\* ------------------------------------------------------------------------
\* requests take the request slots in order
NextRequest(r) == pc[r] = "idle" /\ \A q \in DOMAIN pc : q < r => pc[q] # "idle"

Throw(r, step, name) == Append(thrown[r], [step |-> step, name |-> name])

\* return res.status(400).json(...)
Reject400(r, rq) ==
  /\ req' = [req EXCEPT ![r] = rq]
  /\ resp' = [resp EXCEPT ![r] = Append(@, 400)]
  /\ pc' = [pc EXCEPT ![r] = "done"]
  /\ UNCHANGED <<proc, thrown, screenshot, sent>>
  /\ UNCHANGED engineVars

\* the catch block of the handler, entered with the last exception thrown:
\* res.status(408 or 500).json(...).  When a response was already sent the
\* json call throws inside the catch block and the async handler rejects.
Catch(r, name) ==
  /\ resp' = [resp EXCEPT ![r] = Append(@, ErrorStatus(name))]
  /\ IF resp[r] = <<>>
       THEN /\ pc' = [pc EXCEPT ![r] = "done"]
            /\ proc' = proc
       ELSE /\ pc' = [pc EXCEPT ![r] = "unhandled"]
            /\ proc' \in {"running", "crashed"}

\* the finally block: await page.close()
Finally(r) ==
  /\ calls' = [calls EXCEPT ![r] = Append(@, "close")]
  /\ page' = [page EXCEPT ![r] = "closing"]
  /\ pc' = [pc EXCEPT ![r] = "close"]

\* variant: no finally block, a rejected step goes straight to the catch block
StepRejectNoFinally(r, step, name) ==
  /\ thrown' = [thrown EXCEPT ![r] = Throw(r, step, name)]
  /\ Catch(r, name)
  /\ UNCHANGED <<req, config, screenshot, sent, page, calls, viewport, shots>>

\* variant: the error is answered inside the try block, the page is closed after
StepRejectRespondFirst(r, step, name) ==
  /\ thrown' = [thrown EXCEPT ![r] = <<>>]
  /\ resp' = [resp EXCEPT ![r] = Append(@, ErrorStatus(name))]
  /\ Finally(r)
  /\ UNCHANGED <<req, config, screenshot, sent, viewport, shots, proc>>

\* a step of the inner try block rejected: the finally block runs
StepReject(r, step, name) ==
  /\ thrown' = [thrown EXCEPT ![r] = Throw(r, step, name)]
  /\ Finally(r)
  /\ UNCHANGED <<req, config, screenshot, sent, viewport, shots, resp, proc>>

\* the handler from its first line to its first await
ConvertHandler(r, rq) ==
  LET body == Body(rq) IN
  IF HtmlMissing(body)
    THEN Reject400(r, rq) /\ UNCHANGED config
    ELSE /\ config' = [config EXCEPT ![r] = <<Config(body)>>]
         /\ IF ~ValidType(Config(body))
              THEN Reject400(r, rq)
              ELSE /\ req' = [req EXCEPT ![r] = rq]
                   /\ UNCHANGED <<screenshot, sent>>
                   /\ IF browser = "undefined"
                        \* browser.newPage on undefined throws a TypeError
                        THEN /\ thrown' = [thrown EXCEPT ![r] =
                                             Throw(r, "newPage", "TypeError")]
                             /\ Catch(r, "TypeError")
                             /\ UNCHANGED engineVars
                        ELSE /\ calls' = [calls EXCEPT ![r] = Append(@, "newPage")]
                             /\ pc' = [pc EXCEPT ![r] = "newPage"]
                             /\ UNCHANGED <<page, viewport, shots, thrown, resp, proc>>

Convert(r) ==
  /\ Running
  /\ NextRequest(r)
  /\ \E b \in ConvertBodies : ConvertHandler(r, [endpoint |-> "convert", body |-> b])
  /\ UNCHANGED lifecycleVars

\* POST /convert-form: 400 without content, else the request is handed to
\* the /convert route with req.body = { html, options }
ConvertForm(r) ==
  /\ Running
  /\ NextRequest(r)
  /\ \E f \in ConvertForms :
       LET rq == [endpoint |-> "convert-form", body |-> f] IN
       IF FormRejected(f)
         THEN Reject400(r, rq) /\ UNCHANGED config
         ELSE ConvertHandler(r, rq)
  /\ UNCHANGED lifecycleVars

\* const page = await browser.newPage(); then page.setViewport is called
NewPageResolve(r) ==
  /\ Running
  /\ pc[r] = "newPage"
  /\ page' = [page EXCEPT ![r] = "open"]
  /\ calls' = [calls EXCEPT ![r] = Append(@, "setViewport")]
  /\ viewport' = [viewport EXCEPT ![r] = Append(@, ViewportArg(config[r][1]))]
  /\ pc' = [pc EXCEPT ![r] = "setViewport"]
  /\ UNCHANGED <<req, config, screenshot, sent, shots, thrown, resp, proc>>
  /\ UNCHANGED lifecycleVars

\* browser.newPage() rejected: no page, the outer catch answers
NewPageReject(r, name) ==
  /\ Running
  /\ pc[r] = "newPage"
  /\ thrown' = [thrown EXCEPT ![r] = Throw(r, "newPage", name)]
  /\ Catch(r, name)
  /\ UNCHANGED <<req, config, screenshot, sent>>
  /\ UNCHANGED engineVars
  /\ UNCHANGED lifecycleVars

\* setViewport resolved: page.setContent(html, { timeout: 30000 }) is called
SetViewportResolve(r) ==
  /\ Running
  /\ pc[r] = "setViewport"
  /\ calls' = [calls EXCEPT ![r] = Append(@, "setContent")]
  /\ pc' = [pc EXCEPT ![r] = "setContent"]
  /\ UNCHANGED <<req, config, screenshot, sent, page, viewport, shots, thrown, resp, proc>>
  /\ UNCHANGED lifecycleVars

SetViewportReject(r, name) ==
  /\ Running
  /\ pc[r] = "setViewport"
  /\ StepReject(r, "setViewport", name)
  /\ UNCHANGED lifecycleVars

\* setContent resolved: page.waitForTimeout(1000) is called
SetContentResolve(r) ==
  /\ Running
  /\ pc[r] = "setContent"
  /\ calls' = [calls EXCEPT ![r] = Append(@, "waitForTimeout")]
  /\ pc' = [pc EXCEPT ![r] = "waitForTimeout"]
  /\ UNCHANGED <<req, config, screenshot, sent, page, viewport, shots, thrown, resp, proc>>
  /\ UNCHANGED lifecycleVars

\* variant: a failed content load is swallowed and the handler carries on
SetContentRejectContinue(r, name) ==
  /\ Running
  /\ pc[r] = "setContent"
  /\ thrown' = [thrown EXCEPT ![r] = Throw(r, "setContent", name)]
  /\ calls' = [calls EXCEPT ![r] = Append(@, "waitForTimeout")]
  /\ pc' = [pc EXCEPT ![r] = "waitForTimeout"]
  /\ UNCHANGED <<req, config, screenshot, sent, page, viewport, shots, resp, proc>>
  /\ UNCHANGED lifecycleVars

\* setContent rejected; name "TimeoutError" is the 30 second bound expiring
SetContentReject(r, name) ==
  /\ Running
  /\ pc[r] = "setContent"
  /\ StepReject(r, "setContent", name)
  /\ UNCHANGED lifecycleVars

\* the settling wait is over: page.screenshot(screenshotOptions) is called
WaitResolve(r) ==
  /\ Running
  /\ pc[r] = "waitForTimeout"
  /\ calls' = [calls EXCEPT ![r] = Append(@, "screenshot")]
  /\ shots' = [shots EXCEPT ![r] = Append(@, ScreenshotOptions(config[r][1]))]
  /\ pc' = [pc EXCEPT ![r] = "screenshot"]
  /\ UNCHANGED <<req, config, screenshot, sent, page, viewport, thrown, resp, proc>>
  /\ UNCHANGED lifecycleVars

WaitReject(r, name) ==
  /\ Running
  /\ pc[r] = "waitForTimeout"
  /\ StepReject(r, "waitForTimeout", name)
  /\ UNCHANGED lifecycleVars

\* screenshot resolved: res.set(...), res.send(screenshot), then finally
ScreenshotResolve(r, image) ==
  /\ Running
  /\ pc[r] = "screenshot"
  /\ screenshot' = [screenshot EXCEPT ![r] = Append(@, image)]
  /\ sent' = [sent EXCEPT ![r] = Append(@, ImageResponse(config[r][1], image))]
  /\ resp' = [resp EXCEPT ![r] = Append(@, 200)]
  /\ Finally(r)
  /\ UNCHANGED <<req, config, viewport, shots, thrown, proc>>
  /\ UNCHANGED lifecycleVars

ScreenshotReject(r, name) ==
  /\ Running
  /\ pc[r] = "screenshot"
  /\ StepReject(r, "screenshot", name)
  /\ UNCHANGED lifecycleVars

\* the exception the try block left pending when the finally block began
Pending(r) == IF thrown[r] = <<>> THEN "none" ELSE thrown[r][Len(thrown[r])].name

\* page.close() resolved: a pending exception reaches the catch block,
\* otherwise the handler returns
PageCloseResolve(r) ==
  /\ Running
  /\ pc[r] = "close"
  /\ page' = [page EXCEPT ![r] = "closed"]
  /\ IF Pending(r) = "none"
       THEN /\ pc' = [pc EXCEPT ![r] = "done"]
            /\ UNCHANGED <<resp, proc>>
       ELSE Catch(r, Pending(r))
  /\ UNCHANGED <<req, config, screenshot, sent, calls, viewport, shots, thrown>>
  /\ UNCHANGED lifecycleVars

\* page.close() rejected: its exception replaces the pending one
PageCloseReject(r, name) ==
  /\ Running
  /\ pc[r] = "close"
  /\ page' = [page EXCEPT ![r] = "closeFailed"]
  /\ thrown' = [thrown EXCEPT ![r] = Throw(r, "close", name)]
  /\ Catch(r, name)
  /\ UNCHANGED <<req, config, screenshot, sent, calls, viewport, shots>>
  /\ UNCHANGED lifecycleVars

\* ------------------------------------------------------------------------
\* Specification
\* ------------------------------------------------------------------------
Next ==
  \/ LaunchResolve
  \/ LaunchReject
  \/ \E h \in DOMAIN sig : Signal(h)
  \/ \E h \in DOMAIN sig : BrowserCloseResolve(h)
  \/ \E h \in DOMAIN sig : BrowserCloseReject(h)
  \/ \E r \in DOMAIN pc : Convert(r)
  \/ \E r \in DOMAIN pc : ConvertForm(r)
  \/ \E r \in DOMAIN pc : NewPageResolve(r)
  \/ \E r \in DOMAIN pc, e \in ErrNames : NewPageReject(r, e)
  \/ \E r \in DOMAIN pc : SetViewportResolve(r)
  \/ \E r \in DOMAIN pc, e \in ErrNames : SetViewportReject(r, e)
  \/ \E r \in DOMAIN pc : SetContentResolve(r)
  \/ \E r \in DOMAIN pc, e \in ErrNames : SetContentReject(r, e)
  \/ \E r \in DOMAIN pc : WaitResolve(r)
  \/ \E r \in DOMAIN pc, e \in ErrNames : WaitReject(r, e)
  \/ \E r \in DOMAIN pc, image \in Images : ScreenshotResolve(r, image)
  \/ \E r \in DOMAIN pc, e \in ErrNames : ScreenshotReject(r, e)
  \/ \E r \in DOMAIN pc : PageCloseResolve(r)
  \/ \E r \in DOMAIN pc, e \in ErrNames : PageCloseReject(r, e)

Spec == Init /\ [][Next]_vars

\* ------------------------------------------------------------------------
\* Concurrent valid requests, no signal delivered
\* ------------------------------------------------------------------------
InitConc ==
  /\ browser = "undefined"
  /\ launch = "pending"
  /\ engine = "launching"
  /\ closeCalls = 0
  /\ sig = <<>>
  /\ proc = "running"
  /\ pc = [r \in ConcReqs |-> "idle"]
  /\ req = [r \in ConcReqs |-> NoRequest]
  /\ config = [r \in ConcReqs |-> <<>>]
  /\ screenshot = [r \in ConcReqs |-> <<>>]
  /\ sent = [r \in ConcReqs |-> <<>>]
  /\ page = [r \in ConcReqs |-> "none"]
  /\ calls = [r \in ConcReqs |-> <<>>]
  /\ viewport = [r \in ConcReqs |-> <<>>]
  /\ shots = [r \in ConcReqs |-> <<>>]
  /\ thrown = [r \in ConcReqs |-> <<>>]
  /\ resp = [r \in ConcReqs |-> <<>>]

\* POST /convert with a valid body
ConvertValid(r) ==
  /\ Running
  /\ NextRequest(r)
  /\ \E b \in ConcBodies : ConvertHandler(r, [endpoint |-> "convert", body |-> b])
  /\ UNCHANGED lifecycleVars

\* a pending engine call of request r settles
EngineReturns(r) ==
  \/ NewPageResolve(r)
  \/ \E e \in ErrNames : NewPageReject(r, e)
  \/ SetViewportResolve(r)
  \/ \E e \in ErrNames : SetViewportReject(r, e)
  \/ SetContentResolve(r)
  \/ \E e \in ErrNames : SetContentReject(r, e)
  \/ WaitResolve(r)
  \/ \E e \in ErrNames : WaitReject(r, e)
  \/ \E image \in Images : ScreenshotResolve(r, image)
  \/ \E e \in ErrNames : ScreenshotReject(r, e)
  \/ PageCloseResolve(r)
  \/ \E e \in ErrNames : PageCloseReject(r, e)

NextConc ==
  \/ LaunchResolve
  \/ LaunchReject
  \/ \E r \in DOMAIN pc : ConvertValid(r)
  \/ \E r \in DOMAIN pc : EngineReturns(r)

SpecConc == InitConc /\ [][NextConc]_vars

\* every engine call eventually returns or throws
SpecLive ==
  /\ InitConc
  /\ [][NextConc]_vars
  /\ \A r \in ConcReqs : WF_vars(EngineReturns(r))

\* ------------------------------------------------------------------------
\* Vocabulary of the properties, read off the request as it was received
\* ------------------------------------------------------------------------
Count(seq, x) == Cardinality({i \in DOMAIN seq : seq[i] = x})
NewPageCalls(r) == Count(calls[r], "newPage")
PageCloseCalls(r) == Count(calls[r], "close")

Arrived(r) == req[r].endpoint # "none"
Finished(r) == pc[r] \in {"done", "unhandled"}
InFlight(r) == pc[r] \notin {"idle", "done", "unhandled"}

\* the content of a request: the html member, or for a form the uploaded
\* file when there is one and the html field otherwise
Content(rq) ==
  IF rq.endpoint = "convert" THEN rq.body.html
  ELSE IF rq.body.file # Absent THEN rq.body.file ELSE rq.body.html

NoContent(rq) == Content(rq) \in {Absent, Undefined, Null, empty}

\* the option the caller sent under the given name (Absent: not sent; an
\* empty form field counts as not sent)
Sent(rq, f) ==
  IF rq.endpoint = "convert" THEN rq.body.options[f]
  ELSE IF f = "fullPage"
         THEN IF rq.body[f] = Absent THEN Absent ELSE Bool(rq.body[f] = true)
         ELSE IF rq.body[f] \in {Absent, empty} THEN Absent ELSE rq.body[f]

\* the type after the defaults were merged in
MergedType(rq) == IF Sent(rq, "type") = Absent THEN png ELSE Sent(rq, "type")
IsPng(t) == t.k = "string" /\ t.s = <<"p", "n", "g">>
IsJpeg(t) == t.k = "string" /\ t.s = <<"j", "p", "e", "g">>
BadType(rq) == ~IsPng(MergedType(rq)) /\ ~IsJpeg(MergedType(rq))

\* the request passes validation
Validated(rq) == rq.endpoint # "none" /\ ~NoContent(rq) /\ ~BadType(rq)

\* a width, height or quality was sent that integer parsing turns into NaN
NonNumeric(rq) ==
  \E f \in {"width", "height", "quality"} :
    Sent(rq, f) # Absent /\ parseInt(Sent(rq, f)) = NaN

\* the engine handle is unavailable: never assigned, or shutdown has begun
EngineUnavailable == browser = "undefined" \/ \E h \in DOMAIN sig : sig[h] # "idle"

\* the exception of the given step and name was raised in request r
Raised(r, step, name) ==
  \E i \in DOMAIN thrown[r] : thrown[r][i] = [step |-> step, name |-> name]

\* ------------------------------------------------------------------------
\* Properties
\* ------------------------------------------------------------------------

\* C1: a request calls browser.newPage() at most once; page.close() is never
\* called without a page and never twice; when the handler has finished and a
\* page was created, page.close() was called exactly once and has settled.
C1_PageClosedExactlyOnce ==
  \A r \in DOMAIN pc :
    /\ NewPageCalls(r) <= 1
    /\ PageCloseCalls(r) <= 1
    /\ page[r] = "none" => PageCloseCalls(r) = 0
    /\ (Finished(r) /\ page[r] # "none") =>
         (PageCloseCalls(r) = 1 /\ page[r] \in {"closed", "closeFailed"})

\* a request whose content load failed has finished with its page closed
C1_Witness ==
  \E r \in DOMAIN pc :
    /\ Finished(r)
    /\ Raised(r, "setContent", "Error")
    /\ page[r] = "closed"
    /\ PageCloseCalls(r) = 1

\* C2: a request to /convert or /convert-form without content, or with empty
\* content, is answered 400 and never calls browser.newPage(), whatever the
\* state of the engine handle.
C2_NoContentIs400 ==
  \A r \in DOMAIN pc :
    (Arrived(r) /\ NoContent(req[r])) =>
      (resp[r] = <<400>> /\ calls[r] = <<>> /\ page[r] = "none")

\* a form with an empty file was refused while the engine was shutting down
C2_Witness ==
  \E r \in DOMAIN pc :
    /\ req[r].endpoint = "convert-form"
    /\ req[r].body.file = empty
    /\ engine = "closing"
    /\ resp[r] = <<400>>

\* C3: a /convert request with content whose merged type is not exactly
\* "png" or "jpeg" is answered 400 and touches no engine resource, whatever
\* the other options are.
C3_BadTypeIs400 ==
  \A r \in DOMAIN pc :
    (Arrived(r) /\ ~NoContent(req[r]) /\ BadType(req[r])) =>
      (resp[r] = <<400>> /\ calls[r] = <<>> /\ page[r] = "none")

\* a request of type "PNG" with content was refused while the engine was ready
C3_Witness ==
  \E r \in DOMAIN pc :
    /\ req[r].endpoint = "convert"
    /\ req[r].body.html = markup
    /\ req[r].body.options.type = PNGUpper
    /\ engine = "running"
    /\ resp[r] = <<400>>

\* C4 (as claimed): a validated request that arrives while the engine handle
\* is unavailable, shutdown begun included, is answered 500 at once and never
\* calls browser.newPage().
C4_UnavailableNeverCreates ==
  [][\A r \in DOMAIN pc :
       (pc[r] = "idle" /\ pc'[r] # "idle" /\ Validated(req'[r]) /\ EngineUnavailable)
         => (resp'[r] = <<500>> /\ calls'[r] = <<>>)]_vars

\* C5 (as claimed): when the content load timed out, the response is 408 and
\* the page was closed exactly once, whatever page.close() did.
C5_LoadTimeoutIs408 ==
  \A r \in DOMAIN pc :
    (Finished(r) /\ Raised(r, "setContent", "TimeoutError")) =>
      (resp[r] = <<408>> /\ PageCloseCalls(r) = 1)

\* C6: once a request has a page, an error status (408 or 500) is sent only
\* after page.close() was called on it and that call has settled.
C6_CloseBeforeError ==
  \A r \in DOMAIN pc :
    (page[r] # "none" /\ \E i \in DOMAIN resp[r] : resp[r][i] \in {408, 500}) =>
      (PageCloseCalls(r) = 1 /\ page[r] \in {"closed", "closeFailed"})

\* a capture failed and its 500 was sent with the page closed
C6_Witness ==
  \E r \in DOMAIN pc :
    /\ Raised(r, "screenshot", "Error")
    /\ resp[r] = <<500>>
    /\ page[r] = "closed"

\* C7: the options given to page.screenshot hold a quality exactly when the
\* merged type is "jpeg".
C7_QualityIffJpeg ==
  \A r \in DOMAIN pc :
    \A i \in DOMAIN shots[r] :
      (shots[r][i].quality # Absent) <=> IsJpeg(MergedType(req[r]))

\* a png capture was made for a caller who sent a quality
C7_Witness ==
  \E r \in DOMAIN pc :
    /\ shots[r] # <<>>
    /\ IsPng(MergedType(req[r]))
    /\ Sent(req[r], "quality") # Absent

\* C8 (as claimed): a request with a non-numeric width, height or quality is
\* answered 400, creates no page, and no NaN reaches the engine.
C8_NonNumericIs400 ==
  \A r \in DOMAIN pc :
    (Arrived(r) /\ NonNumeric(req[r])) =>
      /\ resp[r] = <<400>>
      /\ calls[r] = <<>>
      /\ \A i \in DOMAIN viewport[r] : NaN \notin {viewport[r][i].width, viewport[r][i].height}
      /\ \A i \in DOMAIN shots[r] : shots[r][i].quality # NaN

\* C9: process.exit(0) on a signal with the engine handle present happens
\* only after browser.close() was called and has completed; a handler calls
\* browser.close() at most once, so one signal means exactly one call.
C9_CloseBeforeExit ==
  /\ closeCalls <= Cardinality({h \in DOMAIN sig : sig[h] # "idle"})
  /\ (proc = "exited" /\ browser # "undefined") =>
       (closeCalls >= 1 /\ engine = "closed")

\* one signal with no request in flight: one close, completed, then exit
C9_Witness ==
  /\ proc = "exited"
  /\ browser # "undefined"
  /\ Cardinality({h \in DOMAIN sig : sig[h] # "idle"}) = 1
  /\ closeCalls = 1
  /\ engine = "closed"
  /\ \A r \in DOMAIN pc : ~InFlight(r)

\* C10: after a failed launch the process has not crashed, the engine handle
\* stays undefined, and every request that passes validation is answered 500
\* without a page.
C10_DegradedAfterLaunchFailure ==
  launch = "rejected" =>
    /\ browser = "undefined"
    /\ proc # "crashed"
    /\ \A r \in DOMAIN pc :
         Validated(req[r]) =>
           (resp[r] = <<500>> /\ calls[r] = <<>> /\ page[r] = "none")

\* a valid request was answered 500 after the launch had failed
C10_Witness ==
  /\ launch = "rejected"
  /\ proc = "running"
  /\ \E r \in DOMAIN pc : Validated(req[r]) /\ resp[r] = <<500>>

\* C13 (as claimed): no exception of the /convert handler escapes it; the
\* handler never ends in a rejection that nothing catches.
C13_NoExceptionEscapes ==
  \A r \in DOMAIN pc : pc[r] # "unhandled"

\* C14 (as claimed): a width or height that reaches page.setViewport as a
\* number is positive, and a quality that reaches page.screenshot as a number
\* lies in 0..100 (values that are no numbers at all are the subject of C8).
C14_OptionsInRange ==
  \A r \in DOMAIN pc :
    /\ \A i \in DOMAIN viewport[r] :
         /\ viewport[r][i].width.k = "number" => viewport[r][i].width.n > 0
         /\ viewport[r][i].height.k = "number" => viewport[r][i].height.n > 0
    /\ \A i \in DOMAIN shots[r] :
         shots[r][i].quality.k = "number" => shots[r][i].quality.n \in 0..100

\* the engine calls of a handler that runs to its end, in order
Steps == <<"newPage", "setViewport", "setContent", "waitForTimeout", "screenshot", "close">>
StepIndex(step) == CHOOSE k \in DOMAIN Steps : Steps[k] = step

\* C16: the engine calls of a request are made in the order newPage,
\* setViewport, setContent, waitForTimeout, screenshot, close, none skipped
\* and none repeated; once a step on the page has failed the only further
\* call is close; a 200 is sent only after all of them up to the capture.
C16_StepOrder ==
  \A r \in DOMAIN pc :
    /\ \E k \in 0..Len(Steps) :
         \/ calls[r] = SubSeq(Steps, 1, k)
         \/ k \in 2..4 /\ calls[r] = SubSeq(Steps, 1, k) \o <<"close">>
    /\ pc[r] \in {"newPage", "setViewport", "setContent", "waitForTimeout",
                  "screenshot", "close"} =>
         (calls[r] # <<>> /\ calls[r][Len(calls[r])] = pc[r])
    /\ \A i \in DOMAIN thrown[r] :
         thrown[r][i].step \in {"setViewport", "setContent", "waitForTimeout", "screenshot"} =>
           calls[r] = SubSeq(Steps, 1, StepIndex(thrown[r][i].step)) \o <<"close">>
    /\ (\E i \in DOMAIN resp[r] : resp[r][i] = 200) => calls[r] = Steps

\* a content load timed out and the only call after it was close
C16_Witness ==
  \E r \in DOMAIN pc :
    /\ Raised(r, "setContent", "TimeoutError")
    /\ calls[r] = <<"newPage", "setViewport", "setContent", "close">>
    /\ pc[r] = "done"

\* C17 (as claimed): when browser.newPage() rejects, the response is 500 and
\* no viewport, load, capture or close call is made.
C17_NewPageFailureIs500 ==
  \A r \in DOMAIN pc :
    (\E e \in ErrNames : Raised(r, "newPage", e)) =>
      (resp[r] = <<500>> /\ calls[r] = <<"newPage">>)

\* C18 (as claimed): the handler makes at most one res.send / res.json call
\* for a request.
C18_AtMostOneResponse ==
  \A r \in DOMAIN pc : Len(resp[r]) <= 1

\* C19 (as claimed): browser.close() is called at most once in all, and the
\* process does not exit while an engine is launching or launched and not
\* closed.
C19_CloseOnceNoOrphan ==
  /\ closeCalls <= 1
  /\ proc = "exited" => engine \in {"none", "closed"}

\* the defaults the service documents (GET / usage text)
DocumentedDefaults == Opt(Num(1920), Num(1080), Bool(TRUE), Num(100), png)

\* C15: in the merged config of a /convert request every option the caller
\* did not send has its documented default and every option the caller sent
\* has the caller's value; without any option the config is the defaults.
C15_DefaultsMerged ==
  \A r \in DOMAIN pc :
    (req[r].endpoint = "convert" /\ ~NoContent(req[r])) =>
      /\ Len(config[r]) = 1
      /\ \A f \in FieldNames :
           config[r][1][f] = IF Sent(req[r], f) = Absent
                               THEN DocumentedDefaults[f]
                               ELSE Sent(req[r], f)
      /\ (\A f \in FieldNames : Sent(req[r], f) = Absent) =>
           config[r][1] = DocumentedDefaults

\* a request that sent only quality 80 and type "jpeg" was captured: the
\* viewport is the default one, type and quality are the caller's
C15_Witness ==
  \E r \in DOMAIN pc :
    /\ req[r].endpoint = "convert"
    /\ Sent(req[r], "width") = Absent
    /\ Sent(req[r], "quality") = Num(80)
    /\ viewport[r] = <<[width |-> Num(1920), height |-> Num(1080)]>>
    /\ shots[r] = <<[type |-> jpeg, fullPage |-> Bool(TRUE), quality |-> Num(80)]>>

\* C12: a request whose capture succeeded is answered 200 with the captured
\* bytes, Content-Type image/png for "png" and image/jpeg for "jpeg", file
\* name converted.<type> and Content-Length the number of bytes; a 200 is
\* sent only for a capture that succeeded.
C12_SuccessResponse ==
  \A r \in DOMAIN pc :
    /\ screenshot[r] # <<>> =>
         /\ resp[r] # <<>> /\ resp[r][1] = 200
         /\ sent[r] = <<[contentType |-> IF IsPng(MergedType(req[r]))
                                          THEN "image/png" ELSE "image/jpeg",
                         filename |-> IF IsPng(MergedType(req[r]))
                                        THEN <<"c", "o", "n", "v", "e", "r", "t", "e", "d",
                                               ".", "p", "n", "g">>
                                        ELSE <<"c", "o", "n", "v", "e", "r", "t", "e", "d",
                                               ".", "j", "p", "e", "g">>,
                         contentLength |-> Len(screenshot[r][1]),
                         body |-> screenshot[r][1]]>>
    /\ (\E i \in DOMAIN resp[r] : resp[r][i] = 200) =>
         /\ Len(screenshot[r]) = 1
         /\ ~\E e \in ErrNames : Raised(r, "screenshot", e)
         /\ resp[r][1] = 200 /\ \A i \in DOMAIN resp[r] : i > 1 => resp[r][i] # 200

\* a jpeg capture of three bytes was sent and the handler has returned
C12_Witness ==
  \E r \in DOMAIN pc :
    /\ pc[r] = "done"
    /\ resp[r] = <<200>>
    /\ IsJpeg(MergedType(req[r]))
    /\ Len(sent[r]) = 1 /\ sent[r][1].contentLength = 3

\* everything the handler of request r holds
ReqState(r) ==
  <<pc[r], config[r], screenshot[r], sent[r], page[r], calls[r], viewport[r],
    shots[r], thrown[r], resp[r]>>

\* C11 (as claimed): with several valid requests in flight, each creates its
\* own page with one newPage call, a step of one request changes nothing of
\* another request (its page, its calls, its response), and no step of one
\* request takes away the outcome of another that is still in flight.
C11_RequestsIndependent ==
  [][\A q \in DOMAIN pc : \A r \in DOMAIN pc :
       (q # r /\ pc'[q] # pc[q]) =>
         /\ NewPageCalls(q)' <= 1
         /\ ReqState(r)' = ReqState(r)
         /\ req'[r].endpoint = req[r].endpoint
         /\ InFlight(r) => proc' = "running"]_vars

\* C20 (as claimed): when every engine call returns and no signal arrives,
\* every accepted request is eventually answered and its page, if it has
\* one, is eventually closed, however many requests are in flight.
C20_EveryRequestAnswered ==
  \A r \in ConcReqs :
    Arrived(r) ~> (resp[r] # <<>> /\ page[r] \in {"none", "closed", "closeFailed"})

====
